---------------------------- MODULE Spec2Model ----------------------------
(***************************************************************************)
(* A model of TofCScraper.py: the three-stage catalog pipeline run by      *)
(* CatalogProcessor.run (stage 1: OPAC scrape, stage 2: LCCN lookup,       *)
(* stage 3: 505 retrieval).                                                *)
(*                                                                         *)
(* Text is modelled as a sequence of one-character strings, so that        *)
(* strip(), re.sub(), re.search() and '; '.join() are computed and not     *)
(* assumed.  A CSV file is a header (a sequence of column names) and rows  *)
(* (sequences of cells).  Python's None is the model value None.           *)
(***************************************************************************)
EXTENDS Integers, Sequences, FiniteSets, TLC

VARIABLES
    args,           \* the parsed command line: skip flags
    input,          \* the file args.input: [exists, header, rows]
    pc,             \* position of run(): "run1", "s1_loop", "run2", ...
    stage,          \* per stage: "pending", "running", "done", "skipped", "failed"
    exit,           \* the value run() returned: <<>> while it runs, <<0>> or <<1>>
    stage2_input,   \* run(): the file name handed to run_stage2
    stage3_input,   \* run(): the file name handed to run_stage3
    files,          \* the files written: stage1_output, stage2_output, output
    stats,          \* the module-level stats dictionary
    records,        \* the list the running stage iterates over
    idx,            \* 1-based index of the next element of records
    results,        \* process_catalog_records: results (kept after stage 1)
    output_records, \* run_stage2: output_records
    lookup,         \* run_stage2: the lookup in progress for records[idx]
    log,            \* sleeps and requests made for the record last worked on
    net,            \* the last sleep or request since the running stage began
    response        \* the response text an extractor is applied to on its own

vars == <<args, input, pc, stage, exit, stage2_input, stage3_input, files,
          stats, records, idx, results, output_records, lookup, log, net,
          response>>

\* Python's None, told apart from every text (texts hold one-character strings)
None == <<"None">>

----------------------------------------------------------------------------
(* Bounds of the model *)

\* most data rows in an input file
MaxRecords == 2
\* args.max_retries as given on the command line
MaxRetries == 2

----------------------------------------------------------------------------
(* Text *)

Digits == {"0", "1", "2", "3", "4", "5", "6", "7", "8", "9"}

RECURSIVE LStrip(_)
LStrip(s) == IF s = <<>> THEN s
             ELSE IF Head(s) = " " THEN LStrip(Tail(s)) ELSE s

RECURSIVE RStrip(_)
RStrip(s) == IF s = <<>> THEN s
             ELSE IF s[Len(s)] = " " THEN RStrip(SubSeq(s, 1, Len(s) - 1)) ELSE s

\* str.strip()
Strip(s) == RStrip(LStrip(s))

RECURSIVE DropNonDigits(_)
DropNonDigits(s) == IF s = <<>> THEN s
                    ELSE IF Head(s) \in Digits THEN s ELSE DropNonDigits(Tail(s))

RECURSIVE TakeDigits(_)
TakeDigits(s) == IF s = <<>> THEN s
                 ELSE IF Head(s) \in Digits THEN <<Head(s)>> \o TakeDigits(Tail(s))
                 ELSE <<>>

\* re.search(r'(\d+)', s).group(1); <<>> when there is no match
FirstDigitRun(s) == TakeDigits(DropNonDigits(s))

IsIsbnChar(c) == c \in Digits \cup {"X"}

\* re.sub(r'[^0-9X]', '', s)
CleanIsbn(s) == SelectSeq(s, IsIsbnChar)

RECURSIVE Join(_, _)
\* sep.join(list)
Join(list, sep) == IF list = <<>> THEN <<>>
                   ELSE IF Len(list) = 1 THEN list[1]
                   ELSE list[1] \o sep \o Join(Tail(list), sep)

\* the delimiter of save_stage1_results
Delim == <<";", " ">>

Max(a, b) == IF a >= b THEN a ELSE b

----------------------------------------------------------------------------
(* CSV files *)

NoFile == [exists |-> FALSE, header |-> <<>>, rows |-> <<>>]

CsvFile(header, rows) == [exists |-> TRUE, header |-> header, rows |-> rows]

\* "BibID" in header
HasBibID(h) == h = "BibID"

\* "title" in header.lower()
HasTitle(h) == h \in {"Title", "title"}

\* the last index whose header satisfies the test of the loop at 156-160, 0 if none
BibidCol(header) ==
    LET hits == {i \in 1..Len(header) : HasBibID(header[i])}
    IN IF hits = {} THEN 0 ELSE CHOOSE i \in hits : \A j \in hits : j <= i

TitleCol(header) ==
    LET hits == {i \in 1..Len(header) : ~HasBibID(header[i]) /\ HasTitle(header[i])}
    IN IF hits = {} THEN 0 ELSE CHOOSE i \in hits : \A j \in hits : j <= i

\* fault: every digit of the cell is kept, not only the first run
RecordIdAllDigits(bibid) ==
    IF FirstDigitRun(bibid) # <<>>
    THEN SelectSeq(bibid, LAMBDA c : c \in Digits) ELSE bibid

\* the identifier kept for a non-empty stripped identifier cell (lines 171-173)
RecordId(bibid) ==
    IF FirstDigitRun(bibid) # <<>> THEN FirstDigitRun(bibid) ELSE bibid

\* one iteration of the loop over the data rows (lines 165-178)
ParseRow(row, b, t) ==
    IF Len(row) >= Max(b, t) /\ Strip(row[b]) # <<>>
    THEN <<[bibid |-> RecordId(Strip(row[b])), title |-> Strip(row[t])]>>
    ELSE <<>>

RECURSIVE ParseRows(_, _, _)
ParseRows(rows, b, t) ==
    IF rows = <<>> THEN <<>>
    ELSE ParseRow(Head(rows), b, t) \o ParseRows(Tail(rows), b, t)

\* parse_csv: [records, error]
ParseCsv(file) ==
    LET b == BibidCol(file.header)
        t == TitleCol(file.header)
        recs == ParseRows(file.rows, b, t)
    IN IF ~file.exists THEN [records |-> <<>>, error |-> <<"Error parsing CSV">>]
       ELSE IF b = 0 \/ t = 0
       THEN [records |-> <<>>, error |-> <<"Could not find BibID and/or title columns">>]
       ELSE IF recs = <<>>
       THEN [records |-> <<>>, error |-> <<"No valid records found">>]
       ELSE [records |-> recs, error |-> None]

\* csv.DictReader: the cell of a row under a column name, None (restval) for a
\* row too short, dflt (the default of row.get) for a column the file lacks
ColIndex(header, name) ==
    LET hits == {i \in 1..Len(header) : header[i] = name}
    IN IF hits = {} THEN 0 ELSE CHOOSE i \in hits : \A j \in hits : j <= i

Get(header, row, name, dflt) ==
    LET i == ColIndex(header, name)
    IN IF i = 0 THEN dflt ELSE IF i > Len(row) THEN None ELSE row[i]

\* Python truthiness of a cell
Truthy(v) == v # None /\ v # <<>>


\* csv.writer: None is written as the empty cell
WriteCell(v) == IF v = None THEN <<>> ELSE v

----------------------------------------------------------------------------
(* The log of one record's sleeps and requests *)

\* time.sleep(args.delay * k)
Sleep(k) == [ev |-> "sleep", k |-> k, what |-> "delay", key |-> <<>>, res |-> "ok"]

\* time.sleep(self.args.delay * (attempt + 1)) of the retry loop (line 496)
Backoff(k) == [ev |-> "sleep", k |-> k, what |-> "backoff", key |-> <<>>, res |-> "ok"]

\* a search function returns value to run_stage2 (lines 374, 380)
Returned(fn, value) == [ev |-> "return", k |-> 0, what |-> fn, key |-> value, res |-> "ok"]

\* one HTTP GET: what is asked, the key it is asked with, how it ended
Request(what, key, res) == [ev |-> "get", k |-> 0, what |-> what, key |-> key, res |-> res]

Requests(l) == SelectSeq(l, LAMBDA e : e.ev = "get")

Sleeps(l) == SelectSeq(l, LAMBDA e : e.ev = "sleep")

NetEvents(l) == SelectSeq(l, LAMBDA e : e.ev \in {"get", "sleep"})

\* the last sleep or request once the events l have happened
NetAfter(l) ==
    IF NetEvents(l) = <<>> THEN net ELSE NetEvents(l)[Len(NetEvents(l))].ev

\* at the start of the loop of a stage nothing has been slept or requested in it
NetAtStageStart ==
    net' = IF pc' \in {"s1_loop", "s2_loop", "s3_loop"} THEN "none" ELSE net

----------------------------------------------------------------------------
(* Stage 1: OPAC scrape *)

\* the values a catalog page can carry in 020 $a and 010 $a
Isbn1 == <<"1", "-", "X">>
Isbn2 == <<"2">>
Lccn1 == <<"7">>
Lccn2 == <<"8">>

\* scrape_catalog_record keeps an ISBN with everything but digits and X removed
\* (line 216) and an LCCN cut at the first whitespace (line 230)
ScrapedPairs ==
    { [isbns |-> <<>>, lccns |-> <<>>],
      [isbns |-> <<CleanIsbn(Isbn1)>>, lccns |-> <<>>],
      [isbns |-> <<CleanIsbn(Isbn1), CleanIsbn(Isbn2)>>, lccns |-> <<>>],
      [isbns |-> <<>>, lccns |-> <<Lccn1>>],
      [isbns |-> <<>>, lccns |-> <<Lccn1, Lccn2>>],
      [isbns |-> <<CleanIsbn(Isbn1)>>, lccns |-> <<Lccn1>>] }

\* what scrape_catalog_record returns: (data, None), or empty data and str(e)
\* when the request or the parse raised (lines 234-247)
ScrapeOutcomes ==
    { [isbns |-> p.isbns, lccns |-> p.lccns, error |-> None, res |-> "ok"] :
        p \in ScrapedPairs }
    \cup { [isbns |-> <<>>, lccns |-> <<>>, error |-> <<"error">>, res |-> r] :
        r \in {"fetch_failed", "parse_failed"} }

\* the keys of the stats dictionary (lines 13-34)
StatNames ==
    {"total_records", "records_with_isbn", "records_with_lccn", "records_with_both",
     "records_with_none", "errors_stage1",
     "items_requiring_lookup", "successful_isbn_lookups", "successful_title_lookups",
     "failed_lookups",
     "total_505_searches", "found_505", "empty_505", "missing_505", "errors_stage3"}

Bump(st, name) == [st EXCEPT ![name] = @ + 1]

\* fault: a record with both values is counted under has-both alone
UpdateStats1Exclusive(st, o) ==
    LET has_isbn == Len(o.isbns) > 0
        has_lccn == Len(o.lccns) > 0
    IN IF Truthy(o.error) THEN Bump(st, "errors_stage1")
       ELSE IF has_isbn /\ has_lccn THEN Bump(st, "records_with_both")
       ELSE IF has_isbn THEN Bump(st, "records_with_isbn")
       ELSE IF has_lccn THEN Bump(st, "records_with_lccn")
       ELSE Bump(st, "records_with_none")

\* the stats update of process_catalog_records (lines 267-282)
UpdateStats1(st, o) ==
    LET has_isbn == Len(o.isbns) > 0
        has_lccn == Len(o.lccns) > 0
    IN IF Truthy(o.error) THEN Bump(st, "errors_stage1")
       ELSE IF has_isbn /\ has_lccn
       THEN Bump(Bump(Bump(st, "records_with_both"), "records_with_isbn"),
                 "records_with_lccn")
       ELSE IF has_isbn THEN Bump(st, "records_with_isbn")
       ELSE IF has_lccn THEN Bump(st, "records_with_lccn")
       ELSE Bump(st, "records_with_none")

\* one row of save_stage1_results (lines 298-309)
Stage1Row(r) ==
    << r.bibid, r.title, Join(r.isbns, Delim), Join(r.lccns, Delim),
       IF Truthy(r.error) THEN r.error ELSE <<>> >>

Stage1Header == <<"BibID", "Title", "ISBN", "LCCN", "Error">>

SaveStage1Results(res) ==
    CsvFile(Stage1Header, [i \in 1..Len(res) |-> Stage1Row(res[i])])

\* the file a name of run() stands for
FileOf(name) ==
    IF name = "input" THEN input
    ELSE IF name \in DOMAIN files THEN files[name] ELSE NoFile

SetStage(n, s) == stage' = [stage EXCEPT ![n] = s]

\* fault: the failure of a stage is printed and the run goes on
FailAndProceed(n) ==
    /\ SetStage(n, "failed")
    /\ pc' = IF n = 1 THEN "run2" ELSE IF n = 2 THEN "run3" ELSE "Complete"
    /\ exit' = IF n = 3 THEN <<0>> ELSE exit

\* run() returns 1
Fail(n) ==
    /\ SetStage(n, "failed")
    /\ pc' = "Failed"
    /\ exit' = <<1>>

\* run(), lines 55-69, and run_stage1 up to its loop (lines 119-130)
Run1 ==
    /\ pc = "run1"
    /\ \/ /\ ~input.exists
          /\ pc' = "Failed"
          /\ exit' = <<1>>
          /\ UNCHANGED <<stage, stage2_input, stats, records, idx, results>>
       \/ /\ input.exists
          /\ args.skip_stage1
          /\ SetStage(1, "skipped")
          /\ stage2_input' = "input"
          /\ pc' = "run2"
          /\ UNCHANGED <<exit, stats, records, idx, results>>
       \/ /\ input.exists
          /\ ~args.skip_stage1
          /\ ParseCsv(input).error # None
          /\ Fail(1)
          /\ UNCHANGED <<stage2_input, stats, records, idx, results>>
       \/ /\ input.exists
          /\ ~args.skip_stage1
          /\ ParseCsv(input).error = None
          /\ records' = ParseCsv(input).records
          /\ stats' = [stats EXCEPT !.total_records = Len(ParseCsv(input).records)]
          /\ idx' = 1
          /\ results' = <<>>
          /\ SetStage(1, "running")
          /\ pc' = "s1_loop"
          /\ UNCHANGED <<exit, stage2_input>>
    /\ NetAtStageStart
    /\ UNCHANGED <<args, input, response, stage3_input, files, output_records, lookup, log>>

\* fault: the exception of a failed scrape is not caught and ends stage 1
S1RecordAborting ==
    /\ pc = "s1_loop"
    /\ idx <= Len(records)
    /\ \E o \in ScrapeOutcomes :
          IF Truthy(o.error)
          THEN /\ stats' = Bump(stats, "errors_stage1")
               /\ log' = <<Sleep(1), Request("opac", records[idx].bibid, o.res)>>
               /\ Fail(1)
               /\ UNCHANGED <<results, idx>>
          ELSE /\ results' = Append(results,
                     [bibid |-> records[idx].bibid, title |-> records[idx].title,
                      isbns |-> o.isbns, lccns |-> o.lccns, error |-> o.error])
               /\ stats' = UpdateStats1(stats, o)
               /\ log' = <<Sleep(1), Request("opac", records[idx].bibid, o.res)>>
               /\ idx' = idx + 1
               /\ UNCHANGED <<pc, stage, exit>>
    /\ net' = NetAfter(log')
    /\ UNCHANGED <<args, input, response, stage2_input, stage3_input, files,
                   records, output_records, lookup>>

\* one iteration of the loop of process_catalog_records (lines 254-285)
S1Record ==
    /\ pc = "s1_loop"
    /\ idx <= Len(records)
    /\ \E o \in ScrapeOutcomes :
          /\ results' = Append(results,
                [bibid |-> records[idx].bibid, title |-> records[idx].title,
                 isbns |-> o.isbns, lccns |-> o.lccns, error |-> o.error])
          /\ stats' = UpdateStats1(stats, o)
          /\ log' = <<Sleep(1), Request("opac", records[idx].bibid, o.res)>>
    /\ idx' = idx + 1
    /\ net' = NetAfter(log')
    /\ UNCHANGED <<args, input, response, pc, stage, exit, stage2_input, stage3_input,
                   files,
                   records, output_records, lookup>>

\* the end of run_stage1 (lines 132-138) and run(), line 66
S1Finish ==
    /\ pc = "s1_loop"
    /\ idx > Len(records)
    /\ files' = [files EXCEPT !.stage1_output = SaveStage1Results(results)]
    /\ SetStage(1, "done")
    /\ stage2_input' = "stage1_output"
    /\ pc' = "run2"
    /\ UNCHANGED <<args, input, response, exit, stage3_input, stats, records, idx,
                   results, output_records, lookup, log, net>>

----------------------------------------------------------------------------
(* Stage 2: LCCN search *)

\* the LCCN an LC page shows
FoundLccn == <<"9">>

LccnLabel == <<"L", "C", "C", "N">>
PermalinkLabel == LccnLabel \o <<" ", "P", "e", "r", "m", "a", "l", "i", "n", "k">>
PermalinkPrefix == <<"l", "c", "c", "n", ".", "l", "o", "c", ".", "g", "o", "v", "/">>
RftPrefix == <<"r", "f", "t", ".", "l", "c", "c", "n", "=">>

\* s[i:].startswith(sub)
StartsAt(s, sub, i) ==
    /\ i + Len(sub) - 1 <= Len(s)
    /\ SubSeq(s, i, i + Len(sub) - 1) = sub

\* sub in s
Contains(s, sub) == \E i \in 1..Len(s) : StartsAt(s, sub, i)

\* re.search(prefix + r'(\d+)', s): group(1) of the leftmost match, None when
\* there is no match
SearchDigitsAfter(s, prefix) ==
    LET hits == {i \in 1..Len(s) :
                    /\ StartsAt(s, prefix, i)
                    /\ i + Len(prefix) <= Len(s)
                    /\ s[i + Len(prefix)] \in Digits}
        first == CHOOSE i \in hits : \A j \in hits : i <= j
    IN IF hits = {} THEN None
       ELSE TakeDigits(SubSeq(s, first + Len(prefix), Len(s)))

\* the characters of the model's texts that are not \w
NonWordChars == {" ", ":", "-", "/", ".", "=", ";", ","}

\* \b holds between positions i - 1 and i of s
WordBoundary(s, i) ==
    LET word(k) == k >= 1 /\ k <= Len(s) /\ s[k] \notin NonWordChars
    IN word(i - 1) # word(i)

\* the least number of digits the pattern of line 464 asks for
MinLccnDigits == 8

\* re.search(r'\b\d{8,}\b', s): group(0) of the leftmost match, None when there
\* is no match; a match is a whole run of digits, for \b does not hold inside one
SearchLongDigitRun(s) ==
    LET run(i) == TakeDigits(SubSeq(s, i, Len(s)))
        hits == {i \in 1..Len(s) :
                    /\ s[i] \in Digits
                    /\ WordBoundary(s, i)
                    /\ Len(run(i)) >= MinLccnDigits
                    /\ WordBoundary(s, i + Len(run(i)))}
        first == CHOOSE i \in hits : \A j \in hits : i <= j
    IN IF hits = {} THEN None ELSE run(first)

\* An LC page, as what extract_lccn_from_html looks at:
\*   wrappers  the div.items-wrapper elements, each with the text of its
\*             h3.item-title (header), of the span[dir=ltr] in its
\*             ul.item-description (span) and the href of the a#permalink in
\*             that list (href), None for what the wrapper lacks
\*   z3988     the title attribute of span.Z3988, None without one
\*   divs      the texts of the divs in div.content-container
Wrapper(header, span, href) == [header |-> header, span |-> span, href |-> href]

Html(wrappers, z3988, divs) == [wrappers |-> wrappers, z3988 |-> z3988, divs |-> divs]

RECURSIVE Try1(_)
\* try 1 (lines 427-436)
Try1(wrappers) ==
    IF wrappers = <<>> THEN None
    ELSE LET w == Head(wrappers)
         IN IF w.header # None /\ Strip(w.header) = LccnLabel /\ w.span # None
            THEN Strip(w.span)
            ELSE Try1(Tail(wrappers))

RECURSIVE Try2(_)
\* try 2 (lines 439-449)
Try2(wrappers) ==
    IF wrappers = <<>> THEN None
    ELSE LET w == Head(wrappers)
         IN IF /\ w.header # None
               /\ Contains(w.header, PermalinkLabel)
               /\ w.href # None
               /\ SearchDigitsAfter(w.href, PermalinkPrefix) # None
            THEN SearchDigitsAfter(w.href, PermalinkPrefix)
            ELSE Try2(Tail(wrappers))

\* try 3 (lines 452-456)
Try3(z3988) ==
    IF z3988 # None THEN SearchDigitsAfter(z3988, RftPrefix) ELSE None

RECURSIVE Try4(_)
\* try 4 (lines 459-466)
Try4(divs) ==
    IF divs = <<>> THEN None
    ELSE IF Contains(Head(divs), LccnLabel) /\ SearchLongDigitRun(Head(divs)) # None
    THEN SearchLongDigitRun(Head(divs))
    ELSE Try4(Tail(divs))

\* fault: the permalink is tried last, after the OpenURL marker and the scan
ExtractLccnPermalinkLast(page) ==
    IF Try1(page.wrappers) # None THEN Try1(page.wrappers)
    ELSE IF Try3(page.z3988) # None THEN Try3(page.z3988)
    ELSE IF Try4(page.divs) # None THEN Try4(page.divs)
    ELSE IF Try2(page.wrappers) # None THEN Try2(page.wrappers)
    ELSE None

\* extract_lccn_from_html (lines 423-468)
ExtractLccnFromHtml(page) ==
    IF Try1(page.wrappers) # None THEN Try1(page.wrappers)
    ELSE IF Try2(page.wrappers) # None THEN Try2(page.wrappers)
    ELSE IF Try3(page.z3988) # None THEN Try3(page.z3988)
    ELSE IF Try4(page.divs) # None THEN Try4(page.divs)
    ELSE None

\* wrappers of a record page
LccnBlock == Wrapper(<<" ">> \o LccnLabel \o <<" ">>, <<" ">> \o FoundLccn \o <<" ">>, None)
BlankLccnBlock == Wrapper(LccnLabel, <<" ">>, None)
BareLccnBlock == Wrapper(LccnLabel, None, None)
PermalinkBlock == Wrapper(PermalinkLabel, None, PermalinkPrefix \o <<"8", "1">>)
BadPermalinkBlock == Wrapper(PermalinkLabel, None, PermalinkPrefix \o <<"x">>)
NoLinkBlock == Wrapper(<<" ">> \o PermalinkLabel, None, None)
OtherBlock == Wrapper(None, <<"5">>, PermalinkPrefix \o <<"5">>)

\* the pages the searches of stage 2 are answered with: a page without any LCCN,
\* one whose LCCN block is blank though it has a permalink, one with an LCCN
\* block and one with a permalink alone
Pages ==
    { Html(<<OtherBlock>>, None, <<>>),
      Html(<<BlankLccnBlock, PermalinkBlock>>, None, <<>>),
      Html(<<PermalinkBlock, LccnBlock>>, None, <<>>),
      Html(<<LccnBlock>>, <<"x">> \o RftPrefix \o <<"9">>, <<>>) }

Stage2Header == <<"BibID", "Title", "ISBN", "LCCN">>

\* the names of the two search functions
ByIsbn == "scrape_lccn_by_isbn"
ByTitle == "scrape_lccn_by_title"

\* no lookup is in progress; stats0 is the stats dictionary as it was when the
\* iteration of the record looked up began
NoLookup ==
    [phase |-> "none", attempt |-> 0, key |-> <<>>, stats0 |-> [n \in StatNames |-> 0]]

\* the columns run_stage2 reads of records[idx] (lines 338-341)
S2Row ==
    LET h == FileOf(stage2_input).header
        row == records[idx]
    IN [BibID |-> Get(h, row, "BibID", <<>>), Title |-> Get(h, row, "Title", <<>>),
        ISBN |-> Get(h, row, "ISBN", <<>>), LCCN |-> Get(h, row, "LCCN", <<>>)]

OutRow(r, lccn) == <<WriteCell(r.BibID), WriteCell(r.Title), WriteCell(r.ISBN), lccn>>

\* fault: with stage 2 skipped, stage 3 always reads the original input
Stage3InputAlwaysOriginal == "input"

\* run(), line 81: what stage 3 reads when stage 2 is skipped
Stage3InputWhenSkipped == IF ~args.skip_stage1 THEN stage2_input ELSE "input"

\* run(), lines 71-81, and run_stage2 up to its loop (lines 319-335)
Run2 ==
    /\ pc = "run2"
    /\ \/ /\ args.skip_stage2
          /\ SetStage(2, "skipped")
          /\ stage3_input' = Stage3InputWhenSkipped
          /\ pc' = "run3"
          /\ UNCHANGED <<exit, records, idx, output_records>>
       \/ /\ ~args.skip_stage2
          /\ \/ ~FileOf(stage2_input).exists
             \/ \E col \in {"Title", "ISBN", "LCCN"} :
                   ColIndex(FileOf(stage2_input).header, col) = 0
          /\ Fail(2)
          /\ UNCHANGED <<stage3_input, records, idx, output_records>>
       \/ /\ ~args.skip_stage2
          /\ FileOf(stage2_input).exists
          /\ \A col \in {"Title", "ISBN", "LCCN"} :
                ColIndex(FileOf(stage2_input).header, col) # 0
          /\ records' = FileOf(stage2_input).rows
          /\ idx' = 1
          /\ output_records' = <<>>
          /\ SetStage(2, "running")
          /\ pc' = "s2_loop"
          /\ UNCHANGED <<exit, stage3_input>>
    /\ NetAtStageStart
    /\ UNCHANGED <<args, input, response, stage2_input, files, stats, results, lookup, log>>

\* fault: a lookup that found nothing is written but not counted as failed
S2CompleteFailureUncounted(found, log1, stats1) ==
    /\ log' = Append(log1, Sleep(1))
    /\ output_records' = Append(output_records,
                                OutRow(S2Row, IF Truthy(found) THEN found ELSE <<>>))
    /\ stats' = stats1
    /\ idx' = idx + 1
    /\ lookup' = NoLookup

\* run_stage2 after the searches (lines 386-405): the delay, then the row
S2Complete(found, log1, stats1) ==
    /\ log' = Append(log1, Sleep(1))
    /\ IF Truthy(found)
       THEN /\ output_records' = Append(output_records, OutRow(S2Row, found))
            /\ stats' = stats1
       ELSE /\ output_records' = Append(output_records, OutRow(S2Row, <<>>))
            /\ stats' = Bump(stats1, "failed_lookups")
    /\ idx' = idx + 1
    /\ lookup' = NoLookup

\* fault: the title search is made whatever the identifier search returned
S2AfterIsbnAlwaysTitle(found, log1) ==
    /\ log' = Append(Append(log1, Returned(ByIsbn, found)), Sleep(1))
    /\ lookup' = [lookup EXCEPT !.phase = "title"]
    /\ UNCHANGED <<stats, idx, output_records>>

\* fault: a value found by the identifier search is not counted as a success
S2AfterIsbnUncounted(found, log1) ==
    LET log2 == Append(log1, Returned(ByIsbn, found)) IN
    IF ~Truthy(found)
    THEN /\ log' = Append(log2, Sleep(1))
         /\ lookup' = [lookup EXCEPT !.phase = "title"]
         /\ UNCHANGED <<stats, idx, output_records>>
    ELSE S2Complete(found, log2, stats)

\* run_stage2 after scrape_lccn_by_isbn returned (lines 376-384)
S2AfterIsbn(found, log1) ==
    LET log2 == Append(log1, Returned(ByIsbn, found)) IN
    IF ~Truthy(found)
    THEN /\ log' = Append(log2, Sleep(1))
         /\ lookup' = [lookup EXCEPT !.phase = "title"]
         /\ UNCHANGED <<stats, idx, output_records>>
    ELSE S2Complete(found, log2, Bump(stats, "successful_isbn_lookups"))

\* run_stage2 after scrape_lccn_by_title returned (lines 381-382)
S2AfterTitle(found, log1) ==
    S2Complete(found, Append(log1, Returned(ByTitle, found)),
               IF Truthy(found) THEN Bump(stats, "successful_title_lookups") ELSE stats)

\* fault: the rate-limit delay is taken for a record that needs no lookup
S2KeepLccnDelayed(r) ==
    /\ output_records' = Append(output_records, OutRow(r, Strip(r.LCCN)))
    /\ idx' = idx + 1
    /\ log' = <<Sleep(1)>>
    /\ UNCHANGED <<stats, lookup>>

\* run_stage2, lines 346-355: a record that has an LCCN is kept as it is
S2KeepLccn(r) ==
    /\ output_records' = Append(output_records, OutRow(r, Strip(r.LCCN)))
    /\ idx' = idx + 1
    /\ log' = <<>>
    /\ UNCHANGED <<stats, lookup>>

\* the top of one iteration of the loop of run_stage2 (lines 337-374), with the
\* start of scrape_lccn_by_isbn (lines 471-473)
S2Record ==
    /\ pc = "s2_loop"
    /\ idx <= Len(records)
    /\ lookup.phase = "none"
    /\ LET r == S2Row IN
       \/ /\ ~Truthy(r.Title)
          /\ idx' = idx + 1
          /\ log' = <<>>
          /\ UNCHANGED <<output_records, stats, lookup>>
       \/ /\ Truthy(r.Title)
          /\ Truthy(r.LCCN) /\ Strip(r.LCCN) # <<>>
          /\ S2KeepLccn(r)
       \/ /\ Truthy(r.Title)
          /\ ~(Truthy(r.LCCN) /\ Strip(r.LCCN) # <<>>)
          /\ ~Truthy(r.ISBN) \/ Strip(r.ISBN) = <<>>
          /\ output_records' = Append(output_records, OutRow(r, <<>>))
          /\ idx' = idx + 1
          /\ log' = <<>>
          /\ UNCHANGED <<stats, lookup>>
       \/ /\ Truthy(r.Title)
          /\ ~(Truthy(r.LCCN) /\ Strip(r.LCCN) # <<>>)
          /\ Truthy(r.ISBN) /\ Strip(r.ISBN) # <<>>
          /\ stats' = Bump(stats, "items_requiring_lookup")
          /\ IF CleanIsbn(r.ISBN) = <<>> \/ MaxRetries <= 0
             THEN /\ log' = <<Returned(ByIsbn, None), Sleep(1)>>
                  /\ lookup' = [phase |-> "title", attempt |-> 0, key |-> <<>>,
                                stats0 |-> stats]
             ELSE /\ log' = <<>>
                  /\ lookup' = [phase |-> "isbn", attempt |-> 0,
                                key |-> CleanIsbn(r.ISBN), stats0 |-> stats]
          /\ UNCHANGED <<idx, output_records>>
    /\ net' = NetAfter(log')
    /\ UNCHANGED <<args, input, response, pc, stage, exit, stage2_input, stage3_input,
                   files, records, results>>

\* fault: the retry loop makes one pass more than args.max_retries
S2IsbnAttemptOnceMore ==
    /\ pc = "s2_loop"
    /\ lookup.phase = "isbn"
    /\ \/ \E page \in Pages :
             S2AfterIsbn(ExtractLccnFromHtml(page),
                         Append(log, Request("isbn", lookup.key, "ok")))
       \/ S2AfterIsbn(None, Append(log, Request("isbn", lookup.key, "parse_failed")))
       \/ LET log1 == Append(log, Request("isbn", lookup.key, "fetch_failed")) IN
          IF lookup.attempt < MaxRetries
          THEN /\ log' = Append(log1, Backoff(lookup.attempt + 1))
               /\ lookup' = [lookup EXCEPT !.attempt = @ + 1]
               /\ UNCHANGED <<stats, idx, output_records>>
          ELSE S2AfterIsbn(None, log1)
    /\ net' = NetAfter(log')
    /\ UNCHANGED <<args, input, response, pc, stage, exit, stage2_input, stage3_input,
                   files, records, results>>

\* one pass of the retry loop of scrape_lccn_by_isbn (lines 485-503)
S2IsbnAttempt ==
    /\ pc = "s2_loop"
    /\ lookup.phase = "isbn"
    /\ \/ \E page \in Pages :
             S2AfterIsbn(ExtractLccnFromHtml(page),
                         Append(log, Request("isbn", lookup.key, "ok")))
       \/ S2AfterIsbn(None, Append(log, Request("isbn", lookup.key, "parse_failed")))
       \/ LET log1 == Append(log, Request("isbn", lookup.key, "fetch_failed")) IN
          IF lookup.attempt < MaxRetries - 1
          THEN /\ log' = Append(log1, Backoff(lookup.attempt + 1))
               /\ lookup' = [lookup EXCEPT !.attempt = @ + 1]
               /\ UNCHANGED <<stats, idx, output_records>>
          ELSE S2AfterIsbn(None, log1)
    /\ net' = NetAfter(log')
    /\ UNCHANGED <<args, input, response, pc, stage, exit, stage2_input, stage3_input,
                   files, records, results>>

\* fault: the first result is requested at once, without the delay of line 535
S2TitleSearchNoDelay ==
    /\ pc = "s2_loop"
    /\ lookup.phase = "title"
    /\ LET title == Strip(S2Row.Title)
           get(res) == Append(log, Request("title", title, res))
       IN IF title = <<>>
          THEN S2AfterTitle(None, log)
          ELSE \/ S2AfterTitle(None, get("fetch_failed"))
               \/ S2AfterTitle(None, get("parse_failed"))
               \/ /\ log' = get("ok")
                  /\ lookup' = [lookup EXCEPT !.phase = "detail"]
                  /\ UNCHANGED <<stats, idx, output_records>>
               \/ S2AfterTitle(None, get("ok"))
               \/ \E page \in Pages : S2AfterTitle(ExtractLccnFromHtml(page), get("ok"))
    /\ net' = NetAfter(log')
    /\ UNCHANGED <<args, input, response, pc, stage, exit, stage2_input, stage3_input,
                   files, records, results>>

\* scrape_lccn_by_title up to its first response (lines 506-542)
S2TitleSearch ==
    /\ pc = "s2_loop"
    /\ lookup.phase = "title"
    /\ LET title == Strip(S2Row.Title)
           get(res) == Append(log, Request("title", title, res))
       IN IF title = <<>>
          THEN S2AfterTitle(None, log)
          ELSE \/ S2AfterTitle(None, get("fetch_failed"))
               \/ S2AfterTitle(None, get("parse_failed"))
               \/ \* a result list with a first result: its link is followed
                  /\ log' = Append(get("ok"), Sleep(1))
                  /\ lookup' = [lookup EXCEPT !.phase = "detail"]
                  /\ UNCHANGED <<stats, idx, output_records>>
               \/ \* a result list with no result link
                  S2AfterTitle(None, get("ok"))
               \/ \* no result list: the page is a record's own
                  \E page \in Pages : S2AfterTitle(ExtractLccnFromHtml(page), get("ok"))
    /\ net' = NetAfter(log')
    /\ UNCHANGED <<args, input, response, pc, stage, exit, stage2_input, stage3_input,
                   files, records, results>>

\* scrape_lccn_by_title, the request of the first result (lines 537-540)
S2Detail ==
    /\ pc = "s2_loop"
    /\ lookup.phase = "detail"
    /\ LET get(res) == Append(log, Request("detail", <<>>, res))
       IN \/ S2AfterTitle(None, get("fetch_failed"))
          \/ S2AfterTitle(None, get("parse_failed"))
          \/ \E page \in Pages : S2AfterTitle(ExtractLccnFromHtml(page), get("ok"))
    /\ net' = NetAfter(log')
    /\ UNCHANGED <<args, input, response, pc, stage, exit, stage2_input, stage3_input,
                   files, records, results>>

\* the end of run_stage2 (lines 407-415) and run(), line 78
S2Finish ==
    /\ pc = "s2_loop"
    /\ idx > Len(records)
    /\ files' = [files EXCEPT !.stage2_output = CsvFile(Stage2Header, output_records)]
    /\ SetStage(2, "done")
    /\ stage3_input' = "stage2_output"
    /\ pc' = "run3"
    /\ UNCHANGED <<args, input, response, exit, stage2_input, stats, records, idx,
                   results, output_records, lookup, log, net>>

----------------------------------------------------------------------------
(* Stage 3: 505s *)

\* read_lccn_file (lines 577-606): a cell that is None makes .strip() raise, and
\* the except clause returns no entries at all
ReadLccnFile(file) ==
    LET h == file.header
        cell(row, name) == Get(h, row, name, <<>>)
        raises == \E i \in 1..Len(file.rows) :
                     \E name \in {"Title", "LCCN", "BibID", "ISBN"} :
                        cell(file.rows[i], name) = None
        keep(row) == Strip(cell(row, "Title")) # <<>> /\ Strip(cell(row, "LCCN")) # <<>>
        kept == SelectSeq(file.rows, keep)
    IN IF ~file.exists THEN <<>>
       ELSE IF ColIndex(h, "Title") = 0 \/ ColIndex(h, "LCCN") = 0 THEN <<>>
       ELSE IF raises THEN <<>>
       ELSE [i \in 1..Len(kept) |->
                [Title |-> Strip(cell(kept[i], "Title")),
                 LCCN |-> Strip(cell(kept[i], "LCCN")),
                 BibID |-> Strip(cell(kept[i], "BibID")),
                 ISBN |-> Strip(cell(kept[i], "ISBN"))]]

\* 505 fields as lists of subfields
BlankField == << [code |-> "a", text |-> <<" ">>], [code |-> "u", text |-> <<"x">>] >>
NoteField == << [code |-> "a", text |-> <<"P">>], [code |-> "g", text |-> <<" ", "d">>] >>

\* what fetch_marcxml returns for an exception or a status other than 200: None
NoXml == [kind |-> "none", fields |-> <<>>]

\* what https://lccn.loc.gov/<lccn>/marcxml answers with status 200
XmlBodies ==
    { [kind |-> "empty", fields |-> <<>>],
      [kind |-> "malformed", fields |-> <<>>],
      [kind |-> "record", fields |-> <<>>],
      [kind |-> "record", fields |-> <<BlankField>>],
      [kind |-> "record", fields |-> <<NoteField>>] }

NoteCodes == {"a", "g", "t", "r"}

RECURSIVE FieldContentsAnyCode(_)
\* fault: the text of every subfield is kept, whatever its code
FieldContentsAnyCode(subfields) ==
    IF subfields = <<>> THEN <<>>
    ELSE LET sf == Head(subfields)
             content == IF sf.text = None THEN <<>> ELSE sf.text
         IN (IF Strip(content) # <<>> THEN <<Strip(content)>> ELSE <<>>)
            \o FieldContentsAnyCode(Tail(subfields))

RECURSIVE FieldContents(_)
\* the loop over the subfields of one 505 field (lines 701-707)
FieldContents(subfields) ==
    IF subfields = <<>> THEN <<>>
    ELSE LET sf == Head(subfields)
             content == IF sf.text = None THEN <<>> ELSE sf.text
         IN (IF sf.code \in NoteCodes /\ Strip(content) # <<>>
             THEN <<Strip(content)>> ELSE <<>>)
            \o FieldContents(Tail(subfields))

RECURSIVE AllContents(_)
\* the loop over the 505 fields (lines 680-710)
AllContents(fields) ==
    IF fields = <<>> THEN <<>>
    ELSE (IF FieldContents(Head(fields)) # <<>>
          THEN <<Join(FieldContents(Head(fields)), <<" ">>)>> ELSE <<>>)
         \o AllContents(Tail(fields))

\* extract_505_field (lines 632-723): the value returned and whether the except
\* clause ran
Extract505Field(xml) ==
    IF xml.kind = "empty" THEN [value |-> None, raised |-> FALSE]
    ELSE IF xml.kind = "malformed" THEN [value |-> None, raised |-> TRUE]
    ELSE IF xml.fields = <<>> THEN [value |-> None, raised |-> FALSE]
    ELSE [value |-> Join(AllContents(xml.fields), <<"\n">>), raised |-> FALSE]

OutputHeader == <<"BibID", "Title", "ISBN", "LCCN", "Status", "Content_505">>

FinalRow(e, status, content) == <<e.BibID, e.Title, e.ISBN, e.LCCN, <<status>>, content>>

\* fault: the test for an empty 505 is missing, an empty one counts as found
Classify505NoEmptyTest(e, xml_content, st) ==
    IF xml_content = NoXml
    THEN [row |-> FinalRow(e, "Page not found or error", <<>>),
          stats |-> Bump(st, "missing_505")]
    ELSE LET ex == Extract505Field(xml_content)
             st1 == IF ex.raised THEN Bump(st, "errors_stage3") ELSE st
         IN IF ex.value = None
            THEN [row |-> FinalRow(e, "No 505 tag found", <<>>),
                  stats |-> Bump(st1, "missing_505")]
            ELSE [row |-> FinalRow(e, "Found", ex.value),
                  stats |-> Bump(st1, "found_505")]

\* the body of the loop of process_505_entries for an entry with an LCCN, given
\* what fetch_marcxml returned (lines 758-797): the row and the stats
Classify505(e, xml_content, st) ==
    IF xml_content = NoXml
    THEN [row |-> FinalRow(e, "Page not found or error", <<>>),
          stats |-> Bump(st, "missing_505")]
    ELSE LET ex == Extract505Field(xml_content)
             st1 == IF ex.raised THEN Bump(st, "errors_stage3") ELSE st
         IN IF ex.value = None
            THEN [row |-> FinalRow(e, "No 505 tag found", <<>>),
                  stats |-> Bump(st1, "missing_505")]
            ELSE IF ex.value = <<>>
            THEN [row |-> FinalRow(e, "Empty 505 tag", ex.value),
                  stats |-> Bump(st1, "empty_505")]
            ELSE [row |-> FinalRow(e, "Found", ex.value),
                  stats |-> Bump(st1, "found_505")]

\* run() returns 0 (lines 93-107)
Succeed ==
    /\ pc' = "Complete"
    /\ exit' = <<0>>

\* run(), lines 83-91, run_stage3 up to process_505_entries (lines 558-566) and
\* the header written by process_505_entries (lines 726-729)
Run3 ==
    /\ pc = "run3"
    /\ \/ /\ args.skip_stage3
          /\ SetStage(3, "skipped")
          /\ Succeed
          /\ UNCHANGED <<files, stats, records, idx>>
       \/ /\ ~args.skip_stage3
          /\ ReadLccnFile(FileOf(stage3_input)) = <<>>
          /\ Fail(3)
          /\ UNCHANGED <<files, stats, records, idx>>
       \/ /\ ~args.skip_stage3
          /\ ReadLccnFile(FileOf(stage3_input)) # <<>>
          /\ records' = ReadLccnFile(FileOf(stage3_input))
          /\ stats' = [stats EXCEPT !.total_505_searches =
                                       Len(ReadLccnFile(FileOf(stage3_input)))]
          /\ files' = [files EXCEPT !.output = CsvFile(OutputHeader, <<>>)]
          /\ idx' = 1
          /\ SetStage(3, "running")
          /\ pc' = "s3_loop"
          /\ UNCHANGED exit
    /\ NetAtStageStart
    /\ UNCHANGED <<args, input, response, stage2_input, stage3_input, results,
                   output_records, lookup, log>>

WriteRow(row) == files' = [files EXCEPT !.output.rows = Append(@, row)]

\* process_505_entries for an entry with an LCCN, from the delay on (lines
\* 754-797), fetch_marcxml returning xml_content
S3Fetched(e, xml_content) ==
    /\ WriteRow(Classify505(e, xml_content, stats).row)
    /\ stats' = Classify505(e, xml_content, stats).stats
    /\ log' = <<Sleep(1),
                Request("marcxml", e.LCCN,
                        IF xml_content = NoXml THEN "fetch_failed"
                        ELSE IF Extract505Field(xml_content).raised THEN "parse_failed"
                        ELSE "ok")>>

\* one iteration of the loop of process_505_entries (lines 733-799)
S3Record ==
    /\ pc = "s3_loop"
    /\ idx <= Len(records)
    /\ LET e == records[idx] IN
       IF ~Truthy(e.LCCN)
       THEN /\ WriteRow(FinalRow(e, "No LCCN available", <<>>))
            /\ log' = <<>>
            /\ UNCHANGED stats
       ELSE \/ \* fetch_marcxml returns None: an exception or a status other than 200
               S3Fetched(e, NoXml)
            \/ \E xml \in XmlBodies : S3Fetched(e, xml)
    /\ idx' = idx + 1
    /\ net' = NetAfter(log')
    /\ UNCHANGED <<args, input, response, pc, stage, exit, stage2_input, stage3_input,
                   records,
                   results, output_records, lookup>>

\* fault: at the end of its loop stage 3 is entered again
S3FinishRerun ==
    /\ pc = "s3_loop"
    /\ idx > Len(records)
    /\ SetStage(3, "done")
    /\ pc' = "run3"
    /\ UNCHANGED <<args, input, response, exit, stage2_input, stage3_input, files, stats,
                   records, idx, results, output_records, lookup, log, net>>

\* the end of process_505_entries and run_stage3 (lines 801-803, 568), and the
\* end of run() (lines 93-107)
S3Finish ==
    /\ pc = "s3_loop"
    /\ idx > Len(records)
    /\ SetStage(3, "done")
    /\ Succeed
    /\ UNCHANGED <<args, input, response, stage2_input, stage3_input, files, stats,
                   records, idx, results, output_records, lookup, log, net>>

----------------------------------------------------------------------------
(* The run *)

SeqsUpTo(S, n) == UNION {[1..k -> S] : k \in 0..n}

FullHeader == <<"BibID", "Title", "ISBN", "LCCN">>
CatalogHeader == <<"BibID", "title">>

\* a catalog row that already carries an ISBN and an LCCN
GoodRow == << <<"1", "2">>, <<"T">>, <<"1", "X">>, <<"7">> >>
\* a row with a blank identifier, an ISBN and no LCCN
BlankIdRow == << <<" ">>, <<"T">>, <<"3">>, <<>> >>

\* the input files of a run: none, a table with all four columns, or a catalog
\* export that has only the identifier and the title column
InputFiles ==
    {NoFile, CsvFile(CatalogHeader, <<GoodRow>>)} \cup
    { CsvFile(FullHeader, rows) : rows \in SeqsUpTo({GoodRow, BlankIdRow}, MaxRecords) }

\* the state in which run() is entered
Start ==
    /\ pc = "run1"
    /\ stage = [n \in 1..3 |-> "pending"]
    /\ exit = <<>>
    /\ stage2_input = "none"
    /\ stage3_input = "none"
    /\ files = [stage1_output |-> NoFile, stage2_output |-> NoFile, output |-> NoFile]
    /\ stats = [n \in StatNames |-> 0]
    /\ records = <<>>
    /\ idx = 1
    /\ results = <<>>
    /\ output_records = <<>>
    /\ lookup = NoLookup
    /\ log = <<>>
    /\ net = "none"
    /\ response = None

Init ==
    /\ args \in [skip_stage1 : BOOLEAN, skip_stage2 : BOOLEAN, skip_stage3 : BOOLEAN]
    /\ input \in InputFiles
    /\ Start

Next ==
    \/ Run1 \/ S1Record \/ S1Finish
    \/ Run2 \/ S2Record \/ S2IsbnAttempt \/ S2TitleSearch \/ S2Detail \/ S2Finish
    \/ Run3 \/ S3Record \/ S3Finish

Spec == Init /\ [][Next]_vars

\* run() is one thread of control: every sleep ends, every request returns or
\* times out (timeout=10, timeout=30), so a step that can be taken is taken
SpecLive == Spec /\ WF_vars(Next)

----------------------------------------------------------------------------
(* The loader alone: run() up to the loop of stage 1, over identifier cells *)
(* with and without digits, blanks and rows that are too short              *)

IdCells ==
    { <<>>, <<" ">>, <<"1", "2">>, <<"a">>, <<" ", "1", "a", "2", " ">>,
      <<"a", "b", " ", "7">> }

TitleCells == { <<>>, <<" ", "T">> }

LoaderRows ==
    { <<id, title>> : id \in IdCells, title \in TitleCells }
    \cup { <<id>> : id \in IdCells }

LoaderFiles ==
    {NoFile, CsvFile(<<"Title", "ISBN", "LCCN">>, <<>>)} \cup
    { CsvFile(CatalogHeader, rows) : rows \in SeqsUpTo(LoaderRows, MaxRecords) }

InitLoader ==
    /\ args \in [skip_stage1 : BOOLEAN, skip_stage2 : {TRUE}, skip_stage3 : {TRUE}]
    /\ input \in LoaderFiles
    /\ Start

SpecLoader == InitLoader /\ [][Run1]_vars

----------------------------------------------------------------------------
(* Stage 2 alone, on an input file of the user's: run() from line 71 with   *)
(* stage 1 skipped                                                          *)

PaddedLccnRow == << <<"1">>, <<"T">>, <<"1", "-", "X">>, <<" ", "7", " ">> >>
PlainLccnRow == << <<"2">>, <<"T">>, <<>>, <<"7">> >>
TitlelessRow == << <<"3">>, <<>>, <<"2">>, <<"7">> >>
BlankLccnRow == << <<"4">>, <<"T">>, <<"1", "-", "X">>, <<" ">> >>
BlankIsbnRow == << <<"5">>, <<"T">>, <<" ">>, <<>> >>
DashIsbnRow == << <<"6">>, <<" ">>, <<"-">>, <<>> >>
ShortRow == << <<"7">>, <<"T">> >>

Stage2Rows ==
    {PaddedLccnRow, PlainLccnRow, TitlelessRow, BlankLccnRow, BlankIsbnRow,
     DashIsbnRow, ShortRow}

Stage2Files ==
    {CsvFile(CatalogHeader, <<GoodRow>>)} \cup
    { CsvFile(FullHeader, rows) : rows \in SeqsUpTo(Stage2Rows, MaxRecords) }

\* the state run() is in at line 71 when stage 1 was skipped
InitStage2 ==
    /\ args \in [skip_stage1 : {TRUE}, skip_stage2 : BOOLEAN, skip_stage3 : {TRUE}]
    /\ input \in Stage2Files
    /\ pc = "run2"
    /\ stage = <<"skipped", "pending", "pending">>
    /\ exit = <<>>
    /\ stage2_input = "input"
    /\ stage3_input = "none"
    /\ files = [stage1_output |-> NoFile, stage2_output |-> NoFile, output |-> NoFile]
    /\ stats = [n \in StatNames |-> 0]
    /\ records = <<>>
    /\ idx = 1
    /\ results = <<>>
    /\ output_records = <<>>
    /\ lookup = NoLookup
    /\ log = <<>>
    /\ net = "none"
    /\ response = None

NextStage2 ==
    Run2 \/ S2Record \/ S2IsbnAttempt \/ S2TitleSearch \/ S2Detail \/ S2Finish

SpecStage2 == InitStage2 /\ [][NextStage2]_vars

----------------------------------------------------------------------------
(* extract_lccn_from_html alone, applied to a page of any make-up *)

\* most wrappers, most divs of the content container in a page
MaxElements == 2

Wrappers ==
    {LccnBlock, BlankLccnBlock, BareLccnBlock, PermalinkBlock, BadPermalinkBlock,
     NoLinkBlock, OtherBlock}

\* the title attribute of span.Z3988: with rft.lccn, with an rft.lccn that has
\* no digits, or no such span
Z3988s ==
    { None,
      <<"x", "=", "1", ";">> \o RftPrefix \o <<"7", "0", ";">>,
      RftPrefix \o <<"n">> }

LongNumber == <<"1", "2", "3", "4", "5", "6", "7", "8">>

\* texts of divs: the label and a number of eight digits, the label and one of
\* seven, a long number without the label, the label with a long number that a
\* letter follows and then another one
DivTexts ==
    { LccnLabel \o <<":", " ">> \o LongNumber \o <<" ">>,
      LccnLabel \o <<" ">> \o Tail(LongNumber),
      <<"n", "o", " ">> \o LongNumber,
      LccnLabel \o <<" ">> \o LongNumber \o <<"x", " ", "6">> \o LongNumber }

Htmls ==
    { Html(w, z, d) : w \in SeqsUpTo(Wrappers, MaxElements), z \in Z3988s,
                      d \in SeqsUpTo(DivTexts, MaxElements) }

InitExtractLccn ==
    /\ response \in Htmls
    /\ pc = "extract_lccn"
    /\ args = [skip_stage1 |-> TRUE, skip_stage2 |-> FALSE, skip_stage3 |-> TRUE]
    /\ input = NoFile
    /\ stage = <<"skipped", "running", "pending">>
    /\ exit = <<>>
    /\ stage2_input = "input"
    /\ stage3_input = "none"
    /\ files = [stage1_output |-> NoFile, stage2_output |-> NoFile, output |-> NoFile]
    /\ stats = [n \in StatNames |-> 0]
    /\ records = <<>>
    /\ idx = 1
    /\ results = <<>>
    /\ output_records = <<>>
    /\ lookup = NoLookup
    /\ log = <<>>
    /\ net = "none"

\* one call of extract_lccn_from_html on the response text
ExtractLccn ==
    /\ pc = "extract_lccn"
    /\ log' = <<Returned("extract_lccn_from_html", ExtractLccnFromHtml(response))>>
    /\ pc' = "extracted"
    /\ UNCHANGED <<args, input, response, stage, exit, stage2_input, stage3_input, files,
                   stats, records, idx, results, output_records, lookup, net>>

SpecExtractLccn == InitExtractLccn /\ [][ExtractLccn]_vars

----------------------------------------------------------------------------
(* One entry of stage 3 alone, its MARCXML record of any make-up *)

Subfield(code, text) == [code |-> code, text |-> text]

\* 505 fields: a title with a statement of responsibility, a single note, a
\* field without subfields, one whose only text is under another code or
\* missing, and BlankField and NoteField
TitleField == << Subfield("t", <<"T", " ">>), Subfield("r", <<" ", "R">>) >>
SingleField == << Subfield("a", <<"Q">>) >>
BareField == << >>
LinkField == << Subfield("u", <<"x">>), Subfield("g", None), Subfield("6", <<"y">>) >>
MixedField == << Subfield("u", <<"x">>), Subfield("a", <<" ", "P", " ">>),
                 Subfield("t", <<" ">>), Subfield("g", <<"d">>) >>

Fields505 == {NoteField, BlankField, TitleField, SingleField, BareField, LinkField,
              MixedField}

\* what lccn.loc.gov answers with status 200: nothing, text that is not XML, or
\* a record with some 505 fields, or none
XmlRecords ==
    { [kind |-> "empty", fields |-> <<>>], [kind |-> "malformed", fields |-> <<>>] }
    \cup { [kind |-> "record", fields |-> f] : f \in SeqsUpTo(Fields505, MaxElements) }

\* an entry read_lccn_file made
Entry505 == [Title |-> <<"T">>, LCCN |-> <<"7">>, BibID |-> <<"1">>, ISBN |-> <<>>]

\* process_505_entries is at the top of its loop with one entry to work on
InitExtract505 ==
    /\ response \in XmlRecords
    /\ pc = "s3_loop"
    /\ args = [skip_stage1 |-> TRUE, skip_stage2 |-> TRUE, skip_stage3 |-> FALSE]
    /\ input = CsvFile(FullHeader, << <<Entry505.BibID, Entry505.Title, Entry505.ISBN,
                                        Entry505.LCCN>> >>)
    /\ stage = <<"skipped", "skipped", "running">>
    /\ exit = <<>>
    /\ stage2_input = "input"
    /\ stage3_input = "input"
    /\ files = [stage1_output |-> NoFile, stage2_output |-> NoFile,
                output |-> CsvFile(OutputHeader, <<>>)]
    /\ stats = [[n \in StatNames |-> 0] EXCEPT !.total_505_searches = 1]
    /\ records = <<Entry505>>
    /\ idx = 1
    /\ results = <<>>
    /\ output_records = <<>>
    /\ lookup = NoLookup
    /\ log = <<>>
    /\ net = "none"

\* one iteration of the loop of process_505_entries, the answer being response
S3RecordOfResponse ==
    /\ pc = "s3_loop"
    /\ idx <= Len(records)
    /\ S3Fetched(records[idx], response)
    /\ idx' = idx + 1
    /\ net' = NetAfter(log')
    /\ UNCHANGED <<args, input, response, pc, stage, exit, stage2_input, stage3_input,
                   records, results, output_records, lookup>>

NextExtract505 == S3RecordOfResponse \/ S3Finish

SpecExtract505 == InitExtract505 /\ [][NextExtract505]_vars

----------------------------------------------------------------------------
(* Properties *)

Count(seq, x) == Cardinality({i \in DOMAIN seq : seq[i] = x})

\* the status texts of process_505_entries under the names of the data model
NoLccn == <<"No LCCN available">>
FetchFailed == <<"Page not found or error">>
FieldAbsent == <<"No 505 tag found">>
FieldEmpty == <<"Empty 505 tag">>
Found == <<"Found">>

AllStagesDone == pc = "Complete" /\ stage = <<"done", "done", "done">>

\* identifier and title of each accepted record, of each row of the final table
AcceptedKeys == [i \in DOMAIN results |-> <<results[i].bibid, results[i].title>>]
FinalKeys == [i \in DOMAIN files.output.rows |->
                 <<files.output.rows[i][1], files.output.rows[i][2]>>]

\* C1: when all three stages have run to completion, every record accepted
\* from the input appears exactly once in the final output table, also a record
\* whose lookups failed or that has no LCCN.
C1_EveryRecordOnceInFinalTable ==
    AllStagesDone =>
        /\ Len(FinalKeys) = Len(AcceptedKeys)
        /\ \A i \in DOMAIN AcceptedKeys :
              Count(FinalKeys, AcceptedKeys[i]) = Count(AcceptedKeys, AcceptedKeys[i])

Started(n) == stage[n] \in {"running", "done", "failed"}

\* C2: after a stage that is not skipped reports failure no later stage is
\* started, the run is in Failed and has returned 1; stage N+1 is started (or
\* skipped) only after stage N was done or skipped.
C2_FailureHaltsRun ==
    \A n \in 1..3 :
        /\ stage[n] = "failed" =>
              /\ pc = "Failed"
              /\ exit = <<1>>
              /\ \A m \in (n + 1)..3 : stage[m] = "pending"
        /\ (n < 3 /\ stage[n + 1] # "pending") => stage[n] \in {"done", "skipped"}

C2_Witness ==
    /\ stage[1] = "failed"
    /\ ~args.skip_stage2
    /\ ~args.skip_stage3
    /\ exit = <<1>>

\* the output of the most recent stage before stage n that ran, the original
\* input when every earlier stage was skipped
LatestOutput(n) ==
    IF n > 2 /\ stage[2] = "done" THEN "stage2_output"
    ELSE IF n > 1 /\ stage[1] = "done" THEN "stage1_output"
    ELSE "input"

\* C3: whatever the skip flags, the input of each stage that runs is the output
\* of the most recent earlier stage that ran, and the original input exactly
\* when all earlier stages were skipped; stage 1 reads the original input.
C3_StageInputs ==
    /\ pc = "s1_loop" => records = ParseCsv(input).records
    /\ Started(2) => stage2_input = LatestOutput(2)
    /\ Started(3) => stage3_input = LatestOutput(3)
    /\ pc = "s2_loop" => records = FileOf(LatestOutput(2)).rows
    /\ pc = "s3_loop" => records = ReadLccnFile(FileOf(LatestOutput(3)))
    /\ Started(2) => (stage2_input = "input" <=> stage[1] = "skipped")
    /\ Started(3) =>
          (stage3_input = "input" <=> (stage[1] = "skipped" /\ stage[2] = "skipped"))

C3_Witness ==
    /\ pc = "s3_loop"
    /\ stage[1] = "done"
    /\ stage[2] = "skipped"
    /\ stage3_input = "stage1_output"

LastRow == files.output.rows[Len(files.output.rows)]

\* C4: in every stage a failed fetch or parse for one record does not stop the
\* stage: the step that works on a record leaves the stage running, moves to
\* the next record in order, adds that record's row and records the error on it.
C4_RecordErrorsDoNotStopStage ==
    [][ /\ (pc = "s1_loop" /\ idx <= Len(records)) =>
              /\ pc' = "s1_loop"
              /\ idx' = idx + 1
              /\ Len(results') = Len(results) + 1
              /\ results'[idx].bibid = records[idx].bibid
              /\ log'[2].res # "ok" => Truthy(results'[idx].error)
        /\ (pc = "s2_loop" /\ idx <= Len(records)) =>
              /\ pc' = "s2_loop"
              /\ idx' \in {idx, idx + 1}
              /\ (idx' = idx + 1 /\ Truthy(S2Row.Title)) =>
                    /\ Len(output_records') = Len(output_records) + 1
                    /\ output_records'[Len(output_records')][2] = S2Row.Title
              /\ idx' = idx => lookup' # NoLookup
        /\ (pc = "s3_loop" /\ idx <= Len(records)) =>
              /\ pc' = "s3_loop"
              /\ idx' = idx + 1
              /\ Len(files'.output.rows) = Len(files.output.rows) + 1
              /\ LastRow'[4] = records[idx].LCCN
              /\ log'[2].res = "fetch_failed" => LastRow'[5] = FetchFailed
              /\ log'[2].res = "parse_failed" => LastRow'[5] = FieldAbsent
      ]_vars

C4_Witness ==
    /\ pc = "s1_loop"
    /\ Len(results) = 2
    /\ Truthy(results[1].error)
    /\ ~Truthy(results[2].error)

Statuses == {NoLccn, FetchFailed, FieldAbsent, FieldEmpty, Found}

\* C5: every row of the final output table carries one status out of NoLccn,
\* FetchFailed, FieldAbsent, FieldEmpty and Found, and its content is non-empty
\* if and only if the status is Found; a failed fetch gives FetchFailed and a
\* malformed record FieldAbsent, both with empty content.
C5_StatusAndContent ==
    /\ \A i \in DOMAIN files.output.rows :
          LET row == files.output.rows[i] IN
          /\ row[5] \in Statuses
          /\ row[6] # <<>> <=> row[5] = Found
    /\ (pc = "s3_loop" /\ idx > 1 /\ log # <<>>) =>
          /\ log[Len(log)].res = "fetch_failed" =>
                (LastRow[5] = FetchFailed /\ LastRow[6] = <<>>)
          /\ log[Len(log)].res = "parse_failed" =>
                (LastRow[5] = FieldAbsent /\ LastRow[6] = <<>>)

C5_Witness ==
    /\ Len(files.output.rows) = 2
    /\ files.output.rows[1][5] = FieldEmpty
    /\ files.output.rows[2][5] = Found
    /\ files.output.rows[2][6] # <<>>

\* a step of stage 2 that starts on a record
AtRecord2 == pc = "s2_loop" /\ idx <= Len(records) /\ lookup.phase = "none"

\* the record is written as the last row, its LCCN being lccn, with no request,
\* no delay and no change of a counter
KeptWith(lccn) ==
    /\ idx' = idx + 1
    /\ output_records' = Append(output_records,
                                <<S2Row.BibID, S2Row.Title, S2Row.ISBN, lccn>>)
    /\ Requests(log') = <<>>
    /\ Sleeps(log') = <<>>
    /\ stats' = stats

\* C6 as stated: a stage-2 input record whose LCCN is non-empty is written to
\* the stage-2 output with the very LCCN it came in with, with no request, no
\* delay and no change of a counter.
C6_NonEmptyLccnKeptIdentical ==
    [][ (AtRecord2 /\ Truthy(S2Row.LCCN)) => KeptWith(S2Row.LCCN) ]_vars

\* C6, amended: a stage-2 input record that has a title and whose LCCN is
\* non-empty after trimming is written to the stage-2 output with the trimmed
\* LCCN (the LCCN it came in with when that has no blanks around it), with no
\* request, no delay and no change of a counter.
C6_TrimmedLccnKept ==
    [][ (AtRecord2 /\ Truthy(S2Row.Title) /\ Truthy(S2Row.LCCN)
           /\ Strip(S2Row.LCCN) # <<>>)
        => /\ KeptWith(Strip(S2Row.LCCN))
           /\ S2Row.LCCN = Strip(S2Row.LCCN) =>
                 output_records'[Len(output_records')][4] = S2Row.LCCN ]_vars

C6_Witness ==
    /\ pc = "s2_loop"
    /\ Len(records) = 2
    /\ idx = 3
    /\ records[1] = PaddedLccnRow
    /\ records[2] = PlainLccnRow
    /\ output_records = << <<PaddedLccnRow[1], PaddedLccnRow[2], PaddedLccnRow[3], <<"7">> >>,
                           PlainLccnRow >>
    /\ log = <<>>

\* a cell that holds one value: LCCNs have no blank in them (line 230) and the
\* delimiter of joined values is "; "
IsSingleValue(cell) == \A i \in DOMAIN cell : cell[i] \notin {";", " "}

\* C7: every row of the stage-2 output table carries an empty LCCN or exactly
\* one LCCN value, also when stage 1 found several LCCNs for the record.
C7_SingleLccnPerRow ==
    \A i \in DOMAIN files.stage2_output.rows :
        IsSingleValue(files.stage2_output.rows[i][4])

\* C8: an identifier search of stage 2 for a record that stage 1 produced is
\* keyed on the cleaned form of one ISBN, the first that stage 1 extracted for
\* the record.
C8_SearchKeyIsFirstIsbn ==
    (pc = "s2_loop" /\ stage[1] = "done" /\ lookup.phase # "none") =>
        \A i \in DOMAIN log :
            log[i].what = "isbn" =>
                /\ results[idx].isbns # <<>>
                /\ log[i].key = CleanIsbn(results[idx].isbns[1])

\* the data rows parse_csv accepts: enough columns, an identifier that is not
\* blank
Eligible ==
    {i \in DOMAIN input.rows :
        /\ Len(input.rows[i]) >= Max(BibidCol(input.header), TitleCol(input.header))
        /\ Strip(input.rows[i][BibidCol(input.header)]) # <<>>}

\* the record made of row i is the one at the place of i among the accepted rows
RecordOf(i) == records[Cardinality({j \in Eligible : j <= i})]

IdCell(i) == Strip(input.rows[i][BibidCol(input.header)])

AllDigits(s) == \A k \in DOMAIN s : s[k] \in Digits

\* s is the first maximal run of digits of cell
IsFirstDigitRun(s, cell) ==
    /\ s # <<>>
    /\ AllDigits(s)
    /\ \E a \in DOMAIN cell :
          /\ a + Len(s) - 1 <= Len(cell)
          /\ SubSeq(cell, a, a + Len(s) - 1) = s
          /\ \A k \in 1..(a - 1) : cell[k] \notin Digits
          /\ a + Len(s) <= Len(cell) => cell[a + Len(s)] \notin Digits

OneRecordPerRow ==
    /\ Len(records) = Cardinality(Eligible)
    /\ \A i \in Eligible :
          RecordOf(i).title = Strip(input.rows[i][TitleCol(input.header)])

\* C9 as stated: the loader makes one record, in input order, of every data row
\* with enough columns and a non-blank identifier cell, and every recordId is a
\* non-empty string of digits only, the first maximal digit run of the cell.
C9_RecordIdIsDigits ==
    pc = "s1_loop" =>
        /\ OneRecordPerRow
        /\ \A i \in Eligible : IsFirstDigitRun(RecordOf(i).bibid, IdCell(i))

\* C9, amended: the loader makes one record, in input order, of every data row
\* with enough columns and a non-blank identifier cell; the recordId is never
\* empty; it is the first maximal digit run of the cell when the cell has a
\* digit, and the trimmed text of the cell when it has none.
C9_RecordIdIsDigitRunOrCell ==
    pc = "s1_loop" =>
        /\ OneRecordPerRow
        /\ \A i \in Eligible :
              /\ RecordOf(i).bibid # <<>>
              /\ IF \E k \in DOMAIN IdCell(i) : IdCell(i)[k] \in Digits
                 THEN IsFirstDigitRun(RecordOf(i).bibid, IdCell(i))
                 ELSE RecordOf(i).bibid = IdCell(i)

C9_Witness ==
    /\ pc = "s1_loop"
    /\ input.rows = << << <<" ", "1", "a", "2", " ">>, <<" ", "T">> >>,
                       << <<"a">>, <<>> >> >>
    /\ records = << [bibid |-> <<"1">>, title |-> <<"T">>],
                    [bibid |-> <<"a">>, title |-> <<>>] >>

Stage1Counters ==
    {"records_with_isbn", "records_with_lccn", "records_with_both",
     "records_with_none", "errors_stage1"}

\* the stage-1 counters a step added one to, none of them changing otherwise
Incremented == {n \in Stage1Counters : stats'[n] = stats[n] + 1}
OthersUnchanged == \A n \in StatNames \ Incremented : stats'[n] = stats[n]

AtRecord1 == pc = "s1_loop" /\ idx <= Len(records)

\* C10 as stated: processing one record in stage 1 adds one to exactly one of
\* the five counters has-ISBN, has-LCCN, has-both, has-neither and error and
\* leaves the other four unchanged; an errored record adds to error alone.
C10_ExactlyOneCounter ==
    [][ AtRecord1 =>
          /\ Cardinality(Incremented) = 1
          /\ OthersUnchanged
          /\ Truthy(results'[idx].error) => Incremented = {"errors_stage1"} ]_vars

\* C10, amended: processing one record in stage 1 adds one to exactly one of
\* the five counters and leaves the other four unchanged, except that a record
\* with both an ISBN and an LCCN adds one to has-both, to has-ISBN and to
\* has-LCCN; an errored record adds to error alone.
C10_OneCounterOrBothTriple ==
    [][ AtRecord1 =>
          LET r == results'[idx]
              both == r.isbns # <<>> /\ r.lccns # <<>>
          IN /\ OthersUnchanged
             /\ Truthy(r.error) => Incremented = {"errors_stage1"}
             /\ (~Truthy(r.error) /\ both) =>
                   Incremented = {"records_with_both", "records_with_isbn",
                                  "records_with_lccn"}
             /\ (~Truthy(r.error) /\ ~both) =>
                   /\ Cardinality(Incremented) = 1
                   /\ "records_with_isbn" \in Incremented <=> r.isbns # <<>>
                   /\ "records_with_lccn" \in Incremented <=> r.lccns # <<>>
                   /\ "records_with_both" \notin Incremented ]_vars

C10_Witness ==
    /\ pc = "s1_loop"
    /\ Len(results) = 2
    /\ Truthy(results[1].error)
    /\ results[2].isbns # <<>> /\ results[2].lccns # <<>>
    /\ stats.errors_stage1 = 1
    /\ stats.records_with_both = 1
    /\ stats.records_with_isbn = 1
    /\ stats.records_with_lccn = 1

Stage2Counters ==
    {"items_requiring_lookup", "successful_isbn_lookups", "successful_title_lookups",
     "failed_lookups"}

Stage2Outcomes == Stage2Counters \ {"items_requiring_lookup"}

\* a step of stage 2 that ends the work on a record
EndsRecord2 == pc = "s2_loop" /\ idx' = idx + 1

\* the record whose work ends was looked up
LookedUp == lookup.phase # "none"

\* the stats dictionary when the work on the record began
StatsBefore == IF LookedUp THEN lookup.stats0 ELSE stats

\* the stage-2 counters the record added one to, the counters it changed at all
Incremented2 == {n \in Stage2Counters : stats'[n] = StatsBefore[n] + 1}
Changed2 == {n \in StatNames : stats'[n] # StatsBefore[n]}

\* C11 as stated: a record stage 2 attempts a lookup on adds one to exactly one
\* of the counters lookup-required, isbn-search-success, title-search-success and
\* lookup-failed; a record with no lookup (LCCN present, or ISBN empty) changes
\* none of them.
C11_ExactlyOneStage2Counter ==
    [][ EndsRecord2 =>
          IF LookedUp
          THEN Cardinality(Incremented2) = 1 /\ Changed2 = Incremented2
          ELSE Changed2 = {} ]_vars

\* C11, amended: a record stage 2 attempts a lookup on adds one to
\* lookup-required and to exactly one of isbn-search-success,
\* title-search-success and lookup-failed, and changes no other counter; a record
\* with no lookup changes no counter.
C11_RequiredAndOneOutcome ==
    [][ EndsRecord2 =>
          IF LookedUp
          THEN /\ Changed2 = Incremented2
               /\ "items_requiring_lookup" \in Incremented2
               /\ Cardinality(Incremented2 \cap Stage2Outcomes) = 1
          ELSE Changed2 = {} ]_vars

C11_Witness ==
    /\ pc = "s2_loop"
    /\ lookup.phase = "none"
    /\ Len(output_records) = 2
    /\ stats.items_requiring_lookup = 2
    /\ stats.successful_title_lookups = 1
    /\ stats.failed_lookups = 1

\* event e is a search function fn returning: with a value, with none
Yielded(e, fn) == e.ev = "return" /\ e.what = fn /\ Truthy(e.key)
YieldedNothing(e, fn) == e.ev = "return" /\ e.what = fn /\ ~Truthy(e.key)

\* event e is a request of the title search: the search itself or the first result
TitleRequest(e) == e.ev = "get" /\ e.what \in {"title", "detail"}

\* in the events l of one record, every request of the title search comes after
\* the identifier search returned without a value
TitleAfterIsbn(l) ==
    \A i \in DOMAIN l :
        TitleRequest(l[i]) =>
            /\ \E j \in 1..(i - 1) : YieldedNothing(l[j], ByIsbn)
            /\ \A j \in DOMAIN l :
                  (l[j].ev = "get" /\ l[j].what = "isbn") => j < i

\* in the events l of one record, no title search when the identifier search
\* returned a value
NoTitleAfterValue(l) ==
    (\E j \in DOMAIN l : Yielded(l[j], ByIsbn)) =>
        \A i \in DOMAIN l : ~TitleRequest(l[i]) /\ l[i].what # ByTitle

\* C12: for every record stage 2 looks up, the title search is issued only after
\* the identifier search has finished without a value and never when it yielded
\* one, and the record is counted as failed and written with an empty LCCN only
\* when both the identifier search and the title search yielded no value.
C12_SearchesOrdered ==
    /\ [](pc = "s2_loop" => TitleAfterIsbn(log) /\ NoTitleAfterValue(log))
    /\ [][ (EndsRecord2 /\ LookedUp) =>
             LET row == output_records'[Len(output_records')]
                 failed == stats'.failed_lookups = stats.failed_lookups + 1
                 neither == /\ \E j \in DOMAIN log' : YieldedNothing(log'[j], ByIsbn)
                            /\ \E j \in DOMAIN log' : YieldedNothing(log'[j], ByTitle)
             IN /\ Len(output_records') = Len(output_records) + 1
                /\ failed <=> row[4] = <<>>
                /\ failed => neither ]_vars

\* a record whose identifier search got a page without an LCCN, whose title
\* search found one on the page of the first result
C12_Witness ==
    /\ pc = "s2_loop"
    /\ lookup.phase = "none"
    /\ Len(log) = 8
    /\ log[1].what = "isbn" /\ log[1].res = "ok"
    /\ YieldedNothing(log[2], ByIsbn)
    /\ log[4].what = "title"
    /\ log[6].what = "detail"
    /\ Yielded(log[7], ByTitle)
    /\ output_records[Len(output_records)][4] = FoundLccn
    /\ stats.successful_title_lookups = 1

\* event e is a request of the identifier search, a backoff wait
IsbnRequest(e) == e.ev = "get" /\ e.what = "isbn"
IsBackoff(e) == e.ev = "sleep" /\ e.what = "backoff"

\* the number of requests of the identifier search among the first n events
IsbnRequestsBefore(n) == Cardinality({j \in 1..n : IsbnRequest(log[j])})

\* C13: for one record the identifier search makes at most args.max_retries
\* requests; a request after the first directly follows the backoff wait of
\* delay * k, k the number of attempts failed so far, which directly follows a
\* request that ended in a network failure; no backoff wait follows the last
\* allowed attempt; a request that got a response, with an LCCN in it or not, is
\* not repeated.
C13_BoundedRetriesWithBackoff ==
    pc = "s2_loop" =>
        /\ IsbnRequestsBefore(Len(log)) <= MaxRetries
        /\ \A i \in DOMAIN log :
              (IsbnRequest(log[i]) /\ IsbnRequestsBefore(i) > 1) =>
                  /\ i > 2
                  /\ log[i - 1] = Backoff(IsbnRequestsBefore(i) - 1)
                  /\ IsbnRequest(log[i - 2])
                  /\ log[i - 2].res = "fetch_failed"
        /\ \A i \in DOMAIN log :
              IsBackoff(log[i]) =>
                  /\ i > 1
                  /\ IsbnRequest(log[i - 1])
                  /\ log[i - 1].res = "fetch_failed"
                  /\ log[i].k = IsbnRequestsBefore(i)
                  /\ log[i].k < MaxRetries
        /\ \A i \in DOMAIN log :
              (IsbnRequest(log[i]) /\ log[i].res # "fetch_failed") =>
                  \A j \in DOMAIN log : j > i => ~IsbnRequest(log[j]) /\ ~IsBackoff(log[j])

\* every allowed attempt failed: the search has returned without a value and
\* without a wait after the last attempt, and the title search is next
C13_Witness ==
    /\ pc = "s2_loop"
    /\ lookup.phase = "title"
    /\ IsbnRequestsBefore(Len(log)) = MaxRetries
    /\ Len(log) = 2 * MaxRetries + 1
    /\ \A i \in DOMAIN log : IsbnRequest(log[i]) => log[i].res = "fetch_failed"
    /\ log[Len(log) - 1] = Returned(ByIsbn, None)
    /\ IsbnRequest(log[Len(log) - 2])

\* a step of the loop of a stage that works on a record
RecordStep == pc \in {"s1_loop", "s2_loop", "s3_loop"} /\ idx <= Len(records)

\* the sleeps and requests of the step, in order
NewNetEvents ==
    NetEvents(IF pc = "s2_loop" /\ LookedUp
              THEN SubSeq(log', Len(log) + 1, Len(log'))
              ELSE log')

\* what went before the i-th of them: the one before it in the step, or net, the
\* last sleep or request of the stage before the step ("none" if there is none)
NetBefore(i) == IF i = 1 THEN net ELSE NewNetEvents[i - 1].ev

\* C14 as stated: in every stage every network request is preceded by a
\* rate-limit delay that comes after the previous request of the run and after
\* the start of the stage; the first request of stage 2 is preceded by a delay
\* too.
C14_DelayBeforeEveryRequest ==
    [][ RecordStep =>
          \A i \in DOMAIN NewNetEvents :
              NewNetEvents[i].ev = "get" => NetBefore(i) = "sleep" ]_vars

\* C14, amended: every network request is preceded by a delay that comes after
\* the previous request and after the start of the stage, but for the first
\* request of stage 2 when it is a request of the identifier search: that one is
\* made with no delay since the stage began.
C14_DelayBeforeRequestButFirstOfStage2 ==
    [][ RecordStep =>
          \A i \in DOMAIN NewNetEvents :
              NewNetEvents[i].ev = "get" =>
                  \/ NetBefore(i) = "sleep"
                  \/ /\ NetBefore(i) = "none"
                     /\ pc = "s2_loop"
                     /\ NewNetEvents[i].what = "isbn" ]_vars

\* stage 2, run after stage 1, has made its first request with no delay before
\* it, and the requests after it each after a delay
C14_Witness ==
    /\ pc = "s2_loop"
    /\ stage[1] = "done"
    /\ stats.items_requiring_lookup = 1
    /\ Len(log) >= 6
    /\ IsbnRequest(log[1])
    /\ log[3].ev = "sleep"
    /\ log[4].ev = "get"
    /\ log[5].ev = "sleep"
    /\ log[6].ev = "get"

\* the least element of a non-empty set of numbers
Least(S) == CHOOSE i \in S : \A j \in S : i <= j

\* what each strategy yields on a page, None when it yields nothing:
\* (a) the trimmed span of the first block headed "LCCN" that has one
StrategyA(page) ==
    LET w == page.wrappers
        hits == {i \in DOMAIN w : /\ w[i].header # None
                                  /\ Strip(w[i].header) = LccnLabel
                                  /\ w[i].span # None}
    IN IF hits = {} THEN None ELSE Strip(w[Least(hits)].span)

\* (b) the digits of the first permalink to lccn.loc.gov in a block whose
\* heading contains "LCCN Permalink"
StrategyB(page) ==
    LET w == page.wrappers
        hits == {i \in DOMAIN w : /\ w[i].header # None
                                  /\ Contains(w[i].header, PermalinkLabel)
                                  /\ w[i].href # None
                                  /\ SearchDigitsAfter(w[i].href, PermalinkPrefix) # None}
    IN IF hits = {} THEN None
       ELSE SearchDigitsAfter(w[Least(hits)].href, PermalinkPrefix)

\* (c) the digits of rft.lccn= in the OpenURL marker
StrategyC(page) ==
    IF page.z3988 = None THEN None ELSE SearchDigitsAfter(page.z3988, RftPrefix)

\* (d) the first run of eight or more digits in the first div that has "LCCN"
\* and such a run
StrategyD(page) ==
    LET d == page.divs
        hits == {i \in DOMAIN d : /\ Contains(d[i], LccnLabel)
                                  /\ SearchLongDigitRun(d[i]) # None}
    IN IF hits = {} THEN None ELSE SearchLongDigitRun(d[Least(hits)])

Strategies(page) == <<StrategyA(page), StrategyB(page), StrategyC(page), StrategyD(page)>>

\* C15: the LCCN extractor returns the value of the earliest of the strategies
\* (a) labeled block, (b) permalink, (c) OpenURL marker, (d) digit scan that yields
\* one, a later strategy counting only when every earlier one yields nothing (a
\* page that satisfies (b) and not (a) gives the value of (b)), and returns no
\* value only when all four yield nothing.
C15_EarliestStrategyWins ==
    pc = "extracted" =>
        LET y == Strategies(response)
            returned == log[1].key
            yielding == {k \in 1..4 : y[k] # None}
        IN /\ yielding = {} <=> returned = None
           /\ yielding # {} => returned = y[Least(yielding)]
           /\ (y[1] = None /\ y[2] # None) => returned = y[2]

\* a page with a permalink block before an LCCN block that has no span, an
\* OpenURL marker and a div with a long number: the permalink's digits are returned
C15_Witness ==
    /\ pc = "extracted"
    /\ response.wrappers = <<PermalinkBlock, BareLccnBlock>>
    /\ response.z3988 # None /\ StrategyC(response) = <<"7", "0">>
    /\ StrategyD(response) = LongNumber
    /\ log[1].key = <<"8", "1">>

\* a subfield counts: its code is a, g, t or r and its text is not blank
Qualifies(sf) ==
    /\ sf.code \in {"a", "g", "t", "r"}
    /\ sf.text # None
    /\ Strip(sf.text) # <<>>

\* the trimmed texts of the subfields of a field that count, in document order
QualifyingTexts(field) ==
    LET q == SelectSeq(field, Qualifies)
    IN [i \in DOMAIN q |-> Strip(q[i].text)]

\* the content expected of the 505 fields of a record
ExpectedContent(fields) ==
    LET with == SelectSeq(fields, LAMBDA f : QualifyingTexts(f) # <<>>)
    IN Join([i \in DOMAIN with |-> Join(QualifyingTexts(with[i]), <<" ">>)], <<"\n">>)

\* C16: for a fetched record the content is, field by field in document order,
\* the trimmed non-blank texts of the subfields with code a, g, t or r joined by
\* one space, the strings of the fields that have such a text joined by a
\* newline; the status is FieldEmpty exactly when there are 505 fields and none
\* has such a text, and FieldAbsent exactly when the record has no 505 field.
C16_ContentOf505Fields ==
    (response.kind = "record" /\ Len(files.output.rows) = 1) =>
        LET fields == response.fields
            status == files.output.rows[1][5]
            content == files.output.rows[1][6]
            texts == \E i \in DOMAIN fields : QualifyingTexts(fields[i]) # <<>>
        IN /\ status = FieldAbsent <=> fields = <<>>
           /\ status = FieldEmpty <=> (fields # <<>> /\ ~texts)
           /\ status = Found <=> texts
           /\ status \in {FieldAbsent, FieldEmpty, Found}
           /\ content = ExpectedContent(fields)

\* two 505 fields, the first with subfields a and g, the second with a alone
C16_Witness ==
    /\ pc = "s3_loop"
    /\ response.kind = "record"
    /\ response.fields = <<NoteField, SingleField>>
    /\ Len(files.output.rows) = 1
    /\ files.output.rows[1][5] = Found
    /\ files.output.rows[1][6] = <<"P", " ", "d", "\n", "Q">>

\* stage 2 is between two records, or past the last
AtBoundary2 == pc = "s2_loop" /\ lookup.phase = "none"

\* the columns of the i-th record of stage 2
RowOf(i) ==
    LET h == FileOf(stage2_input).header
    IN [Title |-> Get(h, records[i], "Title", <<>>),
        ISBN |-> Get(h, records[i], "ISBN", <<>>),
        LCCN |-> Get(h, records[i], "LCCN", <<>>)]

SumOfOutcomes ==
    stats.successful_isbn_lookups + stats.successful_title_lookups + stats.failed_lookups

\* C17 as stated: at every record boundary of stage 2 lookup-required is the sum
\* of isbn-search-success, title-search-success and lookup-failed, and it is the
\* number of records processed that had a title, an empty LCCN and a non-empty
\* ISBN.
C17_LookupRequiredIsSum ==
    AtBoundary2 =>
        /\ stats.items_requiring_lookup = SumOfOutcomes
        /\ stats.items_requiring_lookup =
              Cardinality({i \in 1..(idx - 1) :
                              /\ Truthy(RowOf(i).Title)
                              /\ ~Truthy(RowOf(i).LCCN)
                              /\ Truthy(RowOf(i).ISBN)})

\* the cell is empty once trimmed, or missing
Blank(cell) == ~Truthy(cell) \/ Strip(cell) = <<>>

\* C17, amended: at every record boundary of stage 2 lookup-required is the sum
\* of isbn-search-success, title-search-success and lookup-failed, and it is the
\* number of records processed that had a title, an LCCN that is empty after
\* trimming and an ISBN that is not empty after trimming.
C17_LookupRequiredIsSumOfTrimmed ==
    AtBoundary2 =>
        /\ stats.items_requiring_lookup = SumOfOutcomes
        /\ stats.items_requiring_lookup =
              Cardinality({i \in 1..(idx - 1) :
                              /\ Truthy(RowOf(i).Title)
                              /\ Blank(RowOf(i).LCCN)
                              /\ ~Blank(RowOf(i).ISBN)})

\* a record with a whitespace LCCN was looked up and failed, one with a
\* whitespace ISBN was not looked up
C17_Witness ==
    /\ AtBoundary2
    /\ idx = 3
    /\ records = <<BlankLccnRow, BlankIsbnRow>>
    /\ stats.items_requiring_lookup = 1
    /\ stats.failed_lookups = 1

Terminated == pc \in {"Complete", "Failed"} /\ exit \in {<<0>>, <<1>>}

\* the most requests one record may cause in the stage that is running
RequestLimit ==
    IF pc = "s2_loop" THEN MaxRetries + 2 ELSE 1

InLoop == pc \in {"s1_loop", "s2_loop", "s3_loop"}

\* C18: a run always ends in Complete or Failed; a record causes at most one
\* request in stage 1, at most args.max_retries + 2 in stage 2 and at most one
\* in stage 3; no stage works on a record twice: within a stage the list of
\* records stays as it is and the index only moves on by one, and a stage that
\* was left is not entered again.
C18_RunTerminates ==
    /\ <>Terminated
    /\ [][ /\ (InLoop /\ pc' = pc) =>
                /\ Len(Requests(log')) <= RequestLimit
                /\ records' = records
                /\ idx' \in {idx, idx + 1}
                /\ (idx' = idx + 1) => idx <= Len(records)
           /\ \A n \in 1..3 :
                stage[n] \in {"done", "skipped", "failed"} => stage'[n] = stage[n]
           /\ \A n \in 1..3 : stage[n] = "running" => stage'[n] # "pending" ]_vars

\* a run that ended in Complete though a scrape failed, an identifier search
\* failed at every attempt and a MARCXML fetch failed
C18_Witness ==
    /\ pc = "Complete"
    /\ exit = <<0>>
    /\ stage = <<"done", "done", "done">>
    /\ stats.errors_stage1 = 1
    /\ stats.successful_title_lookups = 1
    /\ stats.missing_505 = 1
    /\ log[2].res = "fetch_failed"

============================================================================
